---- MODULE Spec2Model ----
(***************************************************************************)
(* Model of the Forecast-XML-Scraper cloud function:                       *)
(*   scraper/dwml_parse.py  flatten_energy, _find_record_list, flatten_dwml *)
(*   scraper/pipeline.py    Pipeline.run_energy_range, Pipeline.run_once    *)
(*                                                                         *)
(* Timestamps are whole hours (UTC) of one day, written as integers.       *)
(* JSON values are tagged records [k, n, s] so that numbers, strings and   *)
(* null stay distinct (0 and "" and null are falsy, "0" is not).           *)
(***************************************************************************)
EXTENDS Integers, Sequences, FiniteSets, TLC

(* ------------------------------ bounds --------------------------------- *)
\* Number of days between the earliest start_date and the end date.
MaxDays == 2
\* Largest number of records in one day's payload of the pipeline runs.
MaxBatch == 2
\* Largest number of times in a time-layout of the forecast documents.
MaxTimes == 2

(* ------------------------------- state --------------------------------- *)
VARIABLES
    master,       \* the blob {csv_prefix}energy_master.csv
    raw,          \* the days whose raw blob {raw_prefix}energy_{day}.json exists
    pc,           \* per worker: where its run_energy_range stands
    start_date,   \* per worker: the start_date argument
    cur,          \* per worker: the day being processed
    resp,         \* per worker: the fetched response body
    df,           \* per worker: the flattened incoming rows
    master_df,    \* per worker: the master table as read
    day_results,  \* per worker: day -> outcome
    total_rows,   \* per worker
    total_days,   \* per worker
    visited,      \* per worker: the days whose iteration has begun, in order
    accepted,     \* per worker: the rows it has reported as appended
    doc,          \* the forecast document run_once fetched
    wide          \* what flatten_dwml made of it

vars == <<master, raw, pc, start_date, cur, resp, df, master_df, day_results,
          total_rows, total_days, visited, accepted, doc, wide>>

(* ----------------------- missing-value sentinels ----------------------- *)
\* pd.NaT: the missing timestamp.
NaT == -1
\* NaN: the missing number (pd.to_numeric(..., errors="coerce")).
NaN == -1

(* ------------------------------ JSON values ---------------------------- *)
JNull == [k |-> "null", n |-> 0, s |-> ""]
JNum(x) == [k |-> "num", n |-> x, s |-> ""]
JStr(x) == [k |-> "str", n |-> 0, s |-> x]

\* Python truthiness of a JSON scalar: None, 0 and "" are falsy.
Truthy(v) ==
    CASE v.k = "null" -> FALSE
      [] v.k = "num" -> v.n # 0
      [] OTHER -> v.s # ""

\* Python `a or b`: a when a is truthy, else b (whatever b is).
PyOr(a, b) == IF Truthy(a) THEN a ELSE b

(* ------------------------- value coercion ------------------------------ *)
\* The timestamp strings of the model and the UTC hour each denotes.
\* "2025-08-25T03:00:00.000-04:00" is 07:00 UTC.
DateStrings ==
    { "2025-08-25T03:00:00.000-04:00", "2025-08-25T07:00:00Z",
      "2025-08-25T08:00:00Z", "2025-08-25T04:00:00.000-04:00" }

UtcHour(s) ==
    CASE s = "2025-08-25T03:00:00.000-04:00" -> 7
      [] s = "2025-08-25T07:00:00Z" -> 7
      [] s = "2025-08-25T08:00:00Z" -> 8
      [] s = "2025-08-25T04:00:00.000-04:00" -> 8
      [] OTHER -> NaT

\* pd.to_datetime(begin, utc=True) raises on a string that is no timestamp
\* (errors defaults to "raise"); a number is taken as an epoch offset.
ToDatetimeRaises(v) == v.k = "str" /\ v.s \notin DateStrings

ToDatetimeUtc(v) == IF v.k = "str" THEN UtcHour(v.s) ELSE 0

\* `pd.to_datetime(begin, utc=True) if begin else pd.NaT`
BeginDateOf(begin) == IF Truthy(begin) THEN ToDatetimeUtc(begin) ELSE NaT

\* The numerals of the model.
NumeralValue(s) ==
    CASE s = "0" -> 0
      [] s = "5" -> 5
      [] s = "9" -> 9
      [] OTHER -> NaN

\* pd.to_numeric(load, errors="coerce"): a number as it is, a numeral parsed,
\* None and any other string the missing number.
ToNumericCoerce(v) ==
    CASE v.k = "num" -> v.n
      [] v.k = "str" -> NumeralValue(v.s)
      [] OTHER -> NaN

(* ------------------------------ tables --------------------------------- *)
\* pandas sort_values("begin_date"): ascending, missing timestamps last,
\* rows with equal timestamps keep their order.
SortsBefore(a, b) == a # NaT /\ (b = NaT \/ a < b)

RECURSIVE InsertSorted(_, _)
InsertSorted(row, rows) ==
    IF rows = <<>> THEN <<row>>
    ELSE IF SortsBefore(row.begin_date, Head(rows).begin_date)
         THEN <<row>> \o rows
         ELSE <<Head(rows)>> \o InsertSorted(row, Tail(rows))

RECURSIVE SortByBeginDate(_)
SortByBeginDate(rows) ==
    IF rows = <<>> THEN <<>>
    ELSE InsertSorted(rows[Len(rows)], SortByBeginDate(SubSeq(rows, 1, Len(rows) - 1)))

(* --------------------- energy payloads (JSON / XML) -------------------- *)
\* A Location value of a JSON record: an object with its fields (JNull for a
\* field that is absent, which is what dict.get returns), or a bare scalar.
LocDict(id, altId, name) ==
    [isdict |-> TRUE, LocId |-> id, Id |-> altId, Name |-> name,
     Location |-> JNull, scalar |-> JNull]
LocScalar(v) ==
    [isdict |-> FALSE, LocId |-> JNull, Id |-> JNull, Name |-> JNull,
     Location |-> JNull, scalar |-> v]

\* An element of the record list: a JSON object with its fields (JNull when
\* absent), or something that is not an object.
Rec(bd, bd2, bd3, loc, l1, l2, l3) ==
    [isdict |-> TRUE, BeginDate |-> bd, Begin |-> bd2, beginDate |-> bd3,
     Location |-> loc, Load |-> l1, Value |-> l2, load |-> l3]
NotAnObject ==
    [isdict |-> FALSE, BeginDate |-> JNull, Begin |-> JNull, beginDate |-> JNull,
     Location |-> LocScalar(JNull), Load |-> JNull, Value |-> JNull, load |-> JNull]

\* An <HourlyRtDemand> element of the XML fallback: the text of its BeginDate
\* and Load children, and its Location child's attributes (JNull when absent).
XmlNode(bd, hasLoc, locId, locID, ld) ==
    [BeginDate |-> bd, hasLoc |-> hasLoc, LocId |-> locId, LocID |-> locID, Load |-> ld]

\* A response body.  kind: "blank" (empty or whitespace), "json" (decodes),
\* "xml" (no JSON, parses as XML), "garbage" (neither).  shape of a decoded
\* JSON value: "list" (top-level list), "hourly" (object whose HourlyRtDemand
\* is a list), "firstlist" (object with another list-valued field), "nolist".
Payload(kind, shape, items, nodes) ==
    [kind |-> kind, shape |-> shape, items |-> items, nodes |-> nodes]
BlankPayload == Payload("blank", "nolist", <<>>, <<>>)
GarbagePayload == Payload("garbage", "nolist", <<>>, <<>>)
JsonPayload(shape, items) == Payload("json", shape, items, <<>>)
XmlPayload(nodes) == Payload("xml", "nolist", <<>>, nodes)

_find_record_list(j) ==
    CASE j.shape = "list" -> j.items
      [] j.shape = "hourly" -> j.items
      [] j.shape = "firstlist" ->
            IF j.items # <<>> /\ j.items[1].isdict THEN j.items ELSE <<>>
      [] OTHER -> <<>>

(* ----------------------------- flatten_energy -------------------------- *)
\* Per-record normalisation of the JSON branch.
RecBegin(rec) == PyOr(PyOr(rec.BeginDate, rec.Begin), rec.beginDate)
RecLoad(rec) == PyOr(PyOr(rec.Load, rec.Value), rec.load)
RecLocId(rec, location_id) ==
    IF rec.Location.isdict
    THEN PyOr(PyOr(rec.Location.LocId, rec.Location.Id), location_id)
    ELSE location_id

\* The record's row; evaluating it raises when the element is not an object
\* (rec.get) or its begin date is no timestamp (pd.to_datetime).
RecRaises(rec) == ~rec.isdict \/ (Truthy(RecBegin(rec)) /\ ToDatetimeRaises(RecBegin(rec)))
RecRow(rec, location_id) ==
    [begin_date |-> BeginDateOf(RecBegin(rec)),
     location_id |-> RecLocId(rec, location_id),
     load |-> ToNumericCoerce(RecLoad(rec))]

\* Per-node normalisation of the XML branch.
NodeLocId(node, location_id) ==
    IF node.hasLoc THEN PyOr(PyOr(node.LocId, node.LocID), location_id)
    ELSE location_id
NodeRaises(node) == Truthy(node.BeginDate) /\ ToDatetimeRaises(node.BeginDate)
NodeRow(node, location_id) ==
    [begin_date |-> BeginDateOf(node.BeginDate),
     location_id |-> NodeLocId(node, location_id),
     load |-> ToNumericCoerce(node.Load)]

Returned(rows) == [raised |-> FALSE, rows |-> rows]
Raised == [raised |-> TRUE, rows |-> <<>>]

\* flatten_energy(resp_json, stamp_utc, location_id): the rows of the narrow
\* table it returns (sorted by begin_date), or that it raised.
flatten_energy(resp_json, location_id) ==
    CASE resp_json.kind = "blank" -> Returned(<<>>)
      [] resp_json.kind = "garbage" -> Returned(<<>>)
      [] resp_json.kind = "xml" ->
            \* the whole branch sits in `try ... except Exception`
            IF \E i \in 1..Len(resp_json.nodes) : NodeRaises(resp_json.nodes[i])
            THEN Returned(<<>>)
            ELSE Returned(SortByBeginDate(
                     [i \in 1..Len(resp_json.nodes) |-> NodeRow(resp_json.nodes[i], location_id)]))
      [] OTHER ->
            LET records == _find_record_list(resp_json)
            IN  IF \E i \in 1..Len(records) : RecRaises(records[i])
                THEN Raised
                ELSE Returned(SortByBeginDate(
                         [i \in 1..Len(records) |-> RecRow(records[i], location_id)]))

(* -------------------- the persisted master CSV ------------------------- *)
\* Series.astype(str) on a location_id cell.
Decimal(n) ==
    CASE n = 4004 -> "4004"
      [] n = 4005 -> "4005"
      [] OTHER -> "0"
AsStr(v) ==
    CASE v.k = "str" -> v.s
      [] v.k = "num" -> Decimal(v.n)
      [] OTHER -> "None"

\* The location_id texts that read_csv takes for integers, and the text of
\* the integer each one is read as: read_csv infers the column's type, so a
\* column of such cells comes back as int64 and astype(str) renders the
\* integer, not the text that was written.
IntegerCells == {"4004", "4005", "04004"}
IntegerText(s) == IF s = "04004" THEN "4004" ELSE s

\* pd.read_csv of the master CSV followed by the two normalisations of
\* lines 139-140: the begin_date and load cells come back as written; the
\* location_id column comes back as integers when every cell is one, and as
\* the written text otherwise.
ReadCsv(rows) ==
    IF rows # <<>> /\ \A i \in 1..Len(rows) : rows[i].location_id \in IntegerCells
    THEN [i \in 1..Len(rows) |->
             [rows[i] EXCEPT !.location_id = IntegerText(rows[i].location_id)]]
    ELSE rows

\* The blob of the master CSV: absent, or the rows of its text.
NoBlob == [exists |-> FALSE, rows |-> <<>>]
Blob(rows) == [exists |-> TRUE, rows |-> rows]

(* ------------------------- the merge step ------------------------------ *)
\* zip(begin_date.astype(str), location_id): the string rendering of a
\* timestamp is one-to-one, NaT included ("NaT").
KeyOf(row) == <<row.begin_date, row.location_id>>
KeySet(rows) == {KeyOf(rows[i]) : i \in 1..Len(rows)}

\* df["location_id"].astype(str) on the incoming rows (lines 144-145).
Normalize(incoming) ==
    [i \in 1..Len(incoming) |-> [incoming[i] EXCEPT !.location_id = AsStr(incoming[i].location_id)]]

\* Variants of IsNew: one that compares the begin_date alone, one that takes
\* every record for new.
IsNewByBeginDate(key, master_keys) == \A k \in master_keys : k[1] # key[1]
IsNewAlways(key, master_keys) == TRUE

\* mask_new (line 147): whether an incoming key is not in master_keys.
IsNew(key, master_keys) == key \notin master_keys

RECURSIVE SelectNew(_, _)
SelectNew(rows, master_keys) ==
    IF rows = <<>> THEN <<>>
    ELSE IF IsNew(KeyOf(Head(rows)), master_keys)
         THEN <<Head(rows)>> \o SelectNew(Tail(rows), master_keys)
         ELSE SelectNew(Tail(rows), master_keys)

\* new_rows = df[mask_new] (lines 137-148).
NewRows(existing, incoming) == SelectNew(Normalize(incoming), KeySet(existing))

\* Variants of Updated: one that writes the accepted rows alone, one that
\* takes the table from the blob as it is when the rows are written.
UpdatedUnsorted(existing, new_rows) == existing \o new_rows
UpdatedNewRowsOnly(existing, new_rows) == SortByBeginDate(new_rows)
UpdatedFromCurrentBlob(existing, new_rows) ==
    SortByBeginDate(ReadCsv(master.rows) \o new_rows)

\* updated (lines 155-159): the accepted rows after the existing ones, the
\* whole re-sorted by begin_date.
Updated(existing, new_rows) == SortByBeginDate(existing \o new_rows)

(* ------------------------- forecast documents -------------------------- *)
\* A <start-valid-time>: a local hour with its UTC offset ("ok"), a text
\* that is no timestamp ("malformed"), or a timestamp without an offset
\* ("naive").
TimeText(local, off, kind) == [local |-> local, off |-> off, kind |-> kind]
\* pd.Timestamp(dtparser.parse(t)).tz_convert("UTC")
UtcOfTimeText(t) == t.local - t.off

\* A <time-layout>: its <layout-key> (if it has one) and its times.
Layout(haskey, key, times) == [haskey |-> haskey, key |-> key, times |-> times]

\* A child element of <parameters>: its tag, its type and time-layout
\* attributes ("" when absent) and the text of its <value> children.
Element(tag, type, tl, values) ==
    [tag |-> tag, type |-> type, tl |-> tl, values |-> values]

\* The first <weather> element: its time-layout attribute and, for each
\* <weather-conditions>, the lower-cased text of its attributes.
Weather(present, tl, conds) == [present |-> present, tl |-> tl, conds |-> conds]

Document(layouts, params, weather) ==
    [layouts |-> layouts, params |-> params, weather |-> weather]

(* ----------------------------- _time_map ------------------------------- *)
\* Line 21 indexes the layout-key list at 0; line 22 parses every time and
\* converts it to UTC, which a timestamp without an offset does not allow.
LayoutRaises(tl) ==
    \/ ~tl.haskey
    \/ \E j \in 1..Len(tl.times) : tl.times[j].kind # "ok"
_time_map_raises(d) == \E i \in 1..Len(d.layouts) : LayoutRaises(d.layouts[i])

LayoutKeys(d) == {d.layouts[i].key : i \in 1..Len(d.layouts)}
\* m[key]: the times of the last layout with that key.
_time_map(d, key) ==
    LET last == CHOOSE i \in 1..Len(d.layouts) :
                    /\ d.layouts[i].key = key
                    /\ \A j \in 1..Len(d.layouts) : d.layouts[j].key = key => j <= i
    IN  [j \in 1..Len(d.layouts[last].times) |-> UtcOfTimeText(d.layouts[last].times[j])]

(* --------------------------- flatten_dwml ------------------------------ *)
Min(a, b) == IF a <= b THEN a ELSE b

\* Lines 57-58: "", "NA" and a missing text become missing, a numeral its
\* number, any other text missing.
CoerceValue(v) ==
    IF v.k = "null" \/ (v.k = "str" /\ v.s \in {"", "NA"}) THEN NaN
    ELSE ToNumericCoerce(v)

\* Lines 40-54: whether a child element of <parameters> yields a series.
YieldsSeries(d, e) ==
    /\ e.tag \notin {"weather", "conditions-icon"}
    /\ e.values # <<>>
    /\ e.tl # ""
    /\ e.tl \in LayoutKeys(d)
    /\ Min(Len(e.values), Len(_time_map(d, e.tl))) # 0

\* Line 55.
SeriesName(e) == IF e.type # "" THEN <<e.tag, e.type>> ELSE <<e.tag, "">>

\* A variant of SeriesOf: the series on the whole layout, the values padded
\* with the missing value or cut to its length.
SeriesOfWholeLayout(d, e) ==
    LET times == _time_map(d, e.tl)
    IN  [name |-> SeriesName(e),
         index |-> times,
         data |-> [i \in 1..Len(times) |->
                     IF i <= Len(e.values) THEN CoerceValue(e.values[i]) ELSE NaN]]

\* Lines 50-59: the element's series: its name, its time axis and its values.
SeriesOf(d, e) ==
    LET n == Min(Len(e.values), Len(_time_map(d, e.tl)))
    IN  [name |-> SeriesName(e),
         index |-> SubSeq(_time_map(d, e.tl), 1, n),
         data |-> [i \in 1..n |-> CoerceValue(e.values[i])]]

RECURSIVE CollectSeries(_, _)
CollectSeries(d, elems) ==
    IF elems = <<>> THEN <<>>
    ELSE IF YieldsSeries(d, Head(elems))
         THEN <<SeriesOf(d, Head(elems))>> \o CollectSeries(d, Tail(elems))
         ELSE CollectSeries(d, Tail(elems))

\* Lines 36-59.
NumericSeries(d) == CollectSeries(d, d.params)

\* Lines 72-83: the three flags of one <weather-conditions>, as 1 and 0; the
\* sets list the condition texts that contain a word of each flag.
Flag(b) == IF b THEN 1 ELSE 0
RainText == {"rain likely", "thunderstorms rain"}
ThunderText == {"thunderstorms", "thunderstorms rain"}
FogText == {"fog patchy"}

\* Lines 62-87: the flag series (rain, thunder, fog); none when there is no
\* <weather>, or no time or no condition to pair.
FlagSeries(d) ==
    LET w == d.weather
        times == IF w.tl \in LayoutKeys(d) THEN _time_map(d, w.tl) ELSE <<>>
        m == Min(Len(times), Len(w.conds))
        idx == SubSeq(times, 1, m)
    IN  IF ~w.present \/ m = 0 THEN <<>>
        ELSE << [name |-> <<"weather", "rain">>, index |-> idx,
                 data |-> [i \in 1..m |-> Flag(w.conds[i] \in RainText)]],
                [name |-> <<"weather", "thunder">>, index |-> idx,
                 data |-> [i \in 1..m |-> Flag(w.conds[i] \in ThunderText)]],
                [name |-> <<"weather", "fog">>, index |-> idx,
                 data |-> [i \in 1..m |-> Flag(w.conds[i] \in FogText)]] >>

AllSeries(d) == NumericSeries(d) \o FlagSeries(d)

RECURSIVE Ascending(_)
Ascending(S) ==
    IF S = {} THEN <<>>
    ELSE LET least == CHOOSE x \in S : \A y \in S : x <= y
         IN  <<least>> \o Ascending(S \ {least})

\* A variant of MasterIndex: the time axes one after the other, sorted, so
\* that a time several series share comes once for each of them.
RECURSIVE AxesInARow(_)
AxesInARow(all) == IF all = <<>> THEN <<>> ELSE Head(all).index \o AxesInARow(Tail(all))
RECURSIVE InsertTime(_, _)
InsertTime(t, times) ==
    IF times = <<>> THEN <<t>>
    ELSE IF t < Head(times) THEN <<t>> \o times
    ELSE <<Head(times)>> \o InsertTime(t, Tail(times))
RECURSIVE SortTimes(_)
SortTimes(times) ==
    IF times = <<>> THEN <<>> ELSE InsertTime(Head(times), SortTimes(Tail(times)))
MasterIndexKeepingRepeats(all) == SortTimes(AxesInARow(all))

\* Lines 89-96: the master index, the sorted union of the time axes.
MasterIndex(all) ==
    Ascending(UNION {{all[i].index[j] : j \in 1..Len(all[i].index)} : i \in 1..Len(all)})

\* s.reindex(df.index) at one time of the master index: the series' value
\* there, or the missing value when the time is not on its axis.
Reindexed(series, t) ==
    IF \E j \in 1..Len(series.index) : series.index[j] = t
    THEN series.data[CHOOSE j \in 1..Len(series.index) : series.index[j] = t]
    ELSE NaN

\* Lines 113-127: the display names.
Renamed(name) ==
    CASE name = <<"temperature", "hourly">> -> <<"temp_F", "">>
      [] name = <<"temperature", "apparent">> -> <<"heat_index_F", "">>
      [] name = <<"dewpoint", "hourly">> -> <<"dewpoint_F", "">>
      [] name = <<"wind-speed", "sustained">> -> <<"wind_speed_mph", "">>
      [] name = <<"wind-speed", "gust">> -> <<"wind_gust_mph", "">>
      [] name = <<"direction", "">> -> <<"wind_dir_deg", "">>
      [] name = <<"probability-of-precipitation", "">> -> <<"pop_pct", "">>
      [] name = <<"cloud-amount", "">> -> <<"sky_cover_pct", "">>
      [] name = <<"humidity", "relative">> -> <<"rh_pct", "">>
      [] name = <<"pressure", "sea-level">> -> <<"pressure_hPa", "">>
      [] name = <<"visibility", "">> -> <<"visibility_mi", "">>
      [] name = <<"cig", "">> -> <<"ceiling_ft", "">>
      [] OTHER -> name

\* Lines 98-104: the column of a name is the one assigned last under it.
LastNamed(all, name) ==
    all[CHOOSE i \in 1..Len(all) :
            all[i].name = name /\ \A j \in 1..Len(all) : all[j].name = name => j <= i]

\* Line 128: df.sort_values("forecast_time_utc").
RECURSIVE InsertByForecastTime(_, _)
InsertByForecastTime(row, rows) ==
    IF rows = <<>> THEN <<row>>
    ELSE IF row.forecast_time_utc < Head(rows).forecast_time_utc THEN <<row>> \o rows
    ELSE <<Head(rows)>> \o InsertByForecastTime(row, Tail(rows))
RECURSIVE SortByForecastTime(_)
SortByForecastTime(rows) ==
    IF rows = <<>> THEN <<>>
    ELSE InsertByForecastTime(rows[Len(rows)],
                              SortByForecastTime(SubSeq(rows, 1, Len(rows) - 1)))

\* Lines 98-128: one row for each time of the master index.
WideRows(all, master_index) ==
    LET names == {all[i].name : i \in 1..Len(all)}
    IN  SortByForecastTime(
          [r \in 1..Len(master_index) |->
             [forecast_time_utc |-> master_index[r],
              cols |-> [c \in {Renamed(n) : n \in names} |->
                          Reindexed(LastNamed(all, CHOOSE n \in names : Renamed(n) = c),
                                    master_index[r])]]])

\* why: the step of run_once that raised.
NotRun == [status |-> "none", why |-> "", rows |-> <<>>]
DwmlRaised(why) == [status |-> "raised", why |-> why, rows |-> <<>>]
WideTable(rows) == [status |-> "table", why |-> "", rows |-> rows]

\* flatten_dwml(resp_bytes, stamp_utc, lat, lon): the wide table, or that it
\* raised (_time_map, or line 94 when no series has a time).
flatten_dwml(d) ==
    IF _time_map_raises(d) THEN DwmlRaised("_time_map")
    ELSE IF AllSeries(d) = <<>> THEN DwmlRaised("no_timestamps")
    ELSE WideTable(WideRows(AllSeries(d), MasterIndex(AllSeries(d))))

\* The sequences over S of length n at most.
RECURSIVE SeqsUpTo(_, _)
SeqsUpTo(S, n) ==
    IF n = 0 THEN {<<>>}
    ELSE LET shorter == SeqsUpTo(S, n - 1)
         IN  shorter \cup {Append(q, x) : q \in shorter, x \in S}

(* ---------------------- inputs of the forecast run --------------------- *)
\* The times of a layout: distinct local hours, all with the offset -04:00
\* (a time-layout lists each period once).
RECURSIVE DistinctSeqs(_)
DistinctSeqs(S) ==
    {<<>>} \cup UNION {{<<x>> \o q : q \in DistinctSeqs(S \ {x})} : x \in S}
LayoutTimes(hours) == [i \in 1..Len(hours) |-> TimeText(hours[i], -4, "ok")]

ForecastValues == {JStr("0"), JStr("NA")}
ValueLists == SeqsUpTo(ForecastValues, MaxTimes + 1)
RECURSIVE Repeated(_, _)
Repeated(v, n) == IF n = 0 THEN <<>> ELSE <<v>> \o Repeated(v, n - 1)

WeatherNodes ==
    { Weather(FALSE, "", <<>>),
      Weather(TRUE, "k1", <<"rain likely">>),
      Weather(TRUE, "k2", <<"fog patchy", "thunderstorms rain">>) }

\* The forecast of one point: every series under a name of its own.
PointDocuments ==
    { Document(<<Layout(TRUE, "k1", LayoutTimes(t1)),
                 Layout(TRUE, "k2", LayoutTimes(Ascending(t2)))>>,
               <<Element("temperature", "hourly", "k1", v1),
                 Element("wind-speed", "sustained", tl2, Repeated(JStr("5"), n2))>>,
               w) :
        t1 \in DistinctSeqs(1..MaxTimes), t2 \in SUBSET (1..MaxTimes),
        v1 \in ValueLists, tl2 \in {"k2", "k9", ""}, n2 \in {0, MaxTimes},
        w \in WeatherNodes }

\* The forecast of two points: a <parameters> for each, so that the hourly
\* temperature comes twice, each on the time-layout of its point.
TwoPointDocuments ==
    { Document(<<Layout(TRUE, "k1", LayoutTimes(t1)),
                 Layout(TRUE, "k2", LayoutTimes(Ascending(t2)))>>,
               <<Element("temperature", "hourly", "k1", Repeated(JStr("0"), MaxTimes)),
                 Element("temperature", "hourly", "k2", Repeated(JStr("5"), MaxTimes))>>,
               Weather(FALSE, "", <<>>)) :
        t1 \in DistinctSeqs(1..MaxTimes), t2 \in SUBSET (1..MaxTimes) }

\* A second time-layout that lacks its <layout-key>, or whose first time is
\* no timestamp or carries no offset.
DefectiveLayouts ==
    { Layout(FALSE, "", LayoutTimes(<<1>>)),
      Layout(TRUE, "k2", <<TimeText(0, 0, "malformed")>> \o LayoutTimes(<<1>>)),
      Layout(TRUE, "k2", <<TimeText(1, 0, "naive")>> \o LayoutTimes(<<1>>)) }
DefectiveDocuments ==
    { Document(<<Layout(TRUE, "k1", LayoutTimes(t1)), bad>>,
               <<Element("temperature", "hourly", "k1", Repeated(JStr("0"), MaxTimes))>>,
               Weather(FALSE, "", <<>>)) :
        t1 \in DistinctSeqs(1..MaxTimes), bad \in DefectiveLayouts }

Documents == PointDocuments \cup TwoPointDocuments \cup DefectiveDocuments

NoDocument == Document(<<>>, <<>>, Weather(FALSE, "", <<>>))

(* ---------------------- inputs of the energy runs ---------------------- *)
\* ENERGY_LOCATION, the caller-supplied location identifier.
Location == JStr("4004")

\* The end date (yesterday) as a day number; days are numbered from 1.
EndDay == MaxDays
\* start_date values: 0 stands for a string strptime rejects (the default
\* ENERGY_START_DATE is ""), d >= 1 for the day d.
BadStartDate == 0
StartDates == 0..(MaxDays + 1)

Workers == {1, 2}

\* Records the feed may return for a day.
EnergyRec(bd, id, ld) ==
    Rec(JStr(bd), JNull, JNull, LocDict(id, JNull, JStr(".Z.CONNECTICUT")), ld, JNull, JNull)
FeedRecords ==
    { EnergyRec("2025-08-25T08:00:00Z", JStr("4004"), JNum(5)),
      EnergyRec("2025-08-25T04:00:00.000-04:00", JNum(4004), JNum(9)),
      EnergyRec("2025-08-25T08:00:00Z", JStr("Z1"), JNum(5)),
      EnergyRec("2025-08-25T07:00:00Z", JStr("04004"), JNum(5)) }

\* Response bodies of the pipeline runs.
FeedPayloads ==
    {JsonPayload("hourly", items) : items \in SeqsUpTo(FeedRecords, MaxBatch)}
      \cup {BlankPayload, JsonPayload("list", <<NotAnObject>>)}

\* Outcomes recorded in day_results.
NoResult == [kind |-> "none", rows_this_run |-> 0]
Error(kind) == [kind |-> kind, rows_this_run |-> 0]
Skipped == [kind |-> "no_new_rows", rows_this_run |-> 0]
Appended(n) == [kind |-> "appended", rows_this_run |-> n]
ErrorKinds == {"fetch_failed", "upload_raw_failed", "flatten_failed", "master_update_failed"}

InitWorkers(running) ==
    /\ master = NoBlob
    /\ raw = {}
    /\ start_date \in [Workers -> StartDates]
    /\ \A w \in Workers \ running : start_date[w] = BadStartDate
    /\ pc = [w \in Workers |-> IF w \in running THEN "start" ELSE "idle"]
    /\ cur = [w \in Workers |-> 0]
    /\ resp = [w \in Workers |-> BlankPayload]
    /\ df = [w \in Workers |-> <<>>]
    /\ master_df = [w \in Workers |-> <<>>]
    /\ day_results = [w \in Workers |-> [d \in 1..MaxDays |-> NoResult]]
    /\ total_rows = [w \in Workers |-> 0]
    /\ total_days = [w \in Workers |-> 0]
    /\ visited = [w \in Workers |-> <<>>]
    /\ accepted = [w \in Workers |-> {}]
    /\ wide = NotRun

Init == InitWorkers({1}) /\ doc = NoDocument

(* --------------------- Pipeline.run_energy_range ----------------------- *)
\* Lines 55-66: parse start_date; an unparsable one returns at once.
Start(w) ==
    /\ pc[w] = "start"
    /\ IF start_date[w] = BadStartDate
       THEN /\ pc' = [pc EXCEPT ![w] = "done"]
            /\ cur' = cur
       ELSE /\ cur' = [cur EXCEPT ![w] = start_date[w]]
            /\ pc' = [pc EXCEPT ![w] = IF start_date[w] <= EndDay THEN "fetch" ELSE "done"]
    /\ UNCHANGED <<master, raw, start_date, resp, df, master_df, day_results,
                   total_rows, total_days, visited, accepted, doc, wide>>

\* Variants of EndOfDay: one that ends the run at the first failed day, one
\* that leaves a failed day out of day_results.
EndOfDayAbortOnError(w, outcome, rows) ==
    /\ day_results' = [day_results EXCEPT ![w][cur[w]] = outcome]
    /\ total_rows' = [total_rows EXCEPT ![w] = @ + rows]
    /\ total_days' = [total_days EXCEPT ![w] = @ + 1]
    /\ cur' = [cur EXCEPT ![w] = @ + 1]
    /\ pc' = [pc EXCEPT ![w] = IF cur[w] + 1 <= EndDay /\ outcome.kind \notin ErrorKinds
                               THEN "fetch" ELSE "done"]
    /\ resp' = [resp EXCEPT ![w] = BlankPayload]
    /\ df' = [df EXCEPT ![w] = <<>>]
    /\ master_df' = [master_df EXCEPT ![w] = <<>>]
EndOfDayDropsError(w, outcome, rows) ==
    /\ day_results' = IF outcome.kind \in ErrorKinds THEN day_results
                      ELSE [day_results EXCEPT ![w][cur[w]] = outcome]
    /\ total_rows' = [total_rows EXCEPT ![w] = @ + rows]
    /\ total_days' = [total_days EXCEPT ![w] = @ + 1]
    /\ cur' = [cur EXCEPT ![w] = @ + 1]
    /\ pc' = [pc EXCEPT ![w] = IF cur[w] + 1 <= EndDay THEN "fetch" ELSE "done"]
    /\ resp' = [resp EXCEPT ![w] = BlankPayload]
    /\ df' = [df EXCEPT ![w] = <<>>]
    /\ master_df' = [master_df EXCEPT ![w] = <<>>]

\* The end of one iteration of the loop: record the day's outcome, count the
\* day, step to the next day and test the loop condition (line 66).  The
\* iteration's locals (resp, df, master_df) are rebound before they are read
\* again; they are cleared here.
EndOfDay(w, outcome, rows) ==
    /\ day_results' = [day_results EXCEPT ![w][cur[w]] = outcome]
    /\ total_rows' = [total_rows EXCEPT ![w] = @ + rows]
    /\ total_days' = [total_days EXCEPT ![w] = @ + 1]
    /\ cur' = [cur EXCEPT ![w] = @ + 1]
    /\ pc' = [pc EXCEPT ![w] = IF cur[w] + 1 <= EndDay THEN "fetch" ELSE "done"]
    /\ resp' = [resp EXCEPT ![w] = BlankPayload]
    /\ df' = [df EXCEPT ![w] = <<>>]
    /\ master_df' = [master_df EXCEPT ![w] = <<>>]

\* Lines 67-80: fetch the day's payload.
Fetch(w) ==
    /\ pc[w] = "fetch"
    /\ visited' = [visited EXCEPT ![w] = Append(@, cur[w])]
    /\ \/ EndOfDay(w, Error("fetch_failed"), 0)
       \/ /\ \E body \in FeedPayloads : resp' = [resp EXCEPT ![w] = body]
          /\ pc' = [pc EXCEPT ![w] = "upload_raw"]
          /\ UNCHANGED <<cur, df, master_df, day_results, total_rows, total_days>>
    /\ UNCHANGED <<master, raw, start_date, accepted, doc, wide>>

\* Lines 82-95: upload the raw payload unless its blob exists.
UploadRaw(w) ==
    /\ pc[w] = "upload_raw"
    /\ \/ /\ EndOfDay(w, Error("upload_raw_failed"), 0)
          /\ UNCHANGED <<raw>>
       \/ /\ raw' = raw \cup {cur[w]}
          /\ pc' = [pc EXCEPT ![w] = "flatten"]
          /\ UNCHANGED <<cur, resp, df, master_df, day_results, total_rows, total_days>>
    /\ UNCHANGED <<master, start_date, visited, accepted, doc, wide>>

\* Lines 97-107: flatten the payload.
Flatten(w) ==
    /\ pc[w] = "flatten"
    /\ LET r == flatten_energy(resp[w], Location)
       IN  IF r.raised
           THEN EndOfDay(w, Error("flatten_failed"), 0)
           ELSE /\ df' = [df EXCEPT ![w] = r.rows]
                /\ pc' = [pc EXCEPT ![w] = "read_master"]
                /\ UNCHANGED <<cur, resp, master_df, day_results, total_rows, total_days>>
    /\ UNCHANGED <<master, raw, start_date, visited, accepted, doc, wide>>

\* A variant of ReadMaster: the empty master CSV is written on every day,
\* whether the blob exists or not.
ReadMasterAlwaysInitializing(w) ==
    /\ pc[w] = "read_master"
    /\ \/ EndOfDay(w, Error("master_update_failed"), 0)
       \/ /\ master_df' = [master_df EXCEPT ![w] = ReadCsv(master.rows)]
          /\ pc' = [pc EXCEPT ![w] = "init_master"]
          /\ UNCHANGED <<cur, resp, df, day_results, total_rows, total_days>>
    /\ UNCHANGED <<master, raw, start_date, visited, accepted, doc, wide>>

\* Lines 110-127: load the master CSV, or start from an empty table.
ReadMaster(w) ==
    /\ pc[w] = "read_master"
    /\ \/ EndOfDay(w, Error("master_update_failed"), 0)
       \/ /\ master_df' = [master_df EXCEPT ![w] = ReadCsv(master.rows)]
          /\ pc' = [pc EXCEPT ![w] = IF master.exists THEN "merge" ELSE "init_master"]
          /\ UNCHANGED <<cur, resp, df, day_results, total_rows, total_days>>
    /\ UNCHANGED <<master, raw, start_date, visited, accepted, doc, wide>>

\* Lines 128-134: write an empty master CSV; a failure is logged and ignored.
InitMaster(w) ==
    /\ pc[w] = "init_master"
    /\ \/ master' = Blob(<<>>)
       \/ master' = master
    /\ pc' = [pc EXCEPT ![w] = "merge"]
    /\ UNCHANGED <<raw, start_date, cur, resp, df, master_df, day_results,
                   total_rows, total_days, visited, accepted, doc, wide>>

\* Lines 136-174: select the new rows and write the updated table back.
Merge(w) ==
    /\ pc[w] = "merge"
    /\ LET new_rows == NewRows(master_df[w], df[w])
       IN  IF new_rows = <<>>
           THEN /\ EndOfDay(w, Skipped, Len(df[w]))
                /\ UNCHANGED <<master, accepted>>
           ELSE \/ /\ master' = Blob(Updated(master_df[w], new_rows))
                   /\ accepted' = [accepted EXCEPT ![w] =
                                      @ \cup {new_rows[i] : i \in 1..Len(new_rows)}]
                   /\ EndOfDay(w, Appended(Len(new_rows)), Len(df[w]))
                \/ /\ EndOfDay(w, Error("master_update_failed"), 0)
                   /\ UNCHANGED <<master, accepted>>
    /\ UNCHANGED <<raw, start_date, visited, doc, wide>>

Step(w) ==
    \/ Start(w)
    \/ Fetch(w)
    \/ UploadRaw(w)
    \/ Flatten(w)
    \/ ReadMaster(w)
    \/ InitMaster(w)
    \/ Merge(w)

\* One invocation at a time: the deployment the design assumes.
Next == Step(1)

Spec == Init /\ [][Next]_vars

\* Two invocations of the function that overlap, each asked for the last
\* day of the range: nothing in the code keeps them apart.
InitConc ==
    /\ InitWorkers(Workers)
    /\ \A w \in Workers : start_date[w] = EndDay
    /\ doc = NoDocument
NextConc == \E w \in Workers : Step(w)
SpecConc == InitConc /\ [][NextConc]_vars

\* Lines 58 and 176-184: the value run_energy_range returns.  keys are the
\* keys of the dict; per_day holds the days that have an entry.
Summary(w) ==
    IF start_date[w] = BadStartDate
    THEN [keys |-> {"error", "start_date"},
          days_requested |-> 0, total_rows |-> 0,
          per_day |-> [d \in {} |-> NoResult]]
    ELSE [keys |-> {"start_date", "end_date", "location", "days_requested",
                    "total_rows", "per_day"},
          days_requested |-> total_days[w], total_rows |-> total_rows[w],
          per_day |-> [d \in {e \in 1..MaxDays : day_results[w][e].kind # "none"}
                         |-> day_results[w][d]]]

(* ------------------ flatten_energy on a single record ------------------ *)
\* Records with any of the alternative begin-date and load fields, a load
\* of 0 among them.
FieldRecords ==
    { Rec(bd, bd2, bd3, LocDict(JStr("4004"), JNull, JNull), l1, l2, l3) :
        bd \in {JNull, JStr("2025-08-25T08:00:00Z")},
        bd2 \in {JNull, JStr("2025-08-25T07:00:00Z")},
        bd3 \in {JNull, JStr("2025-08-25T07:00:00Z")},
        l1 \in {JNull, JNum(0), JNum(5)},
        l2 \in {JNull, JNum(9)},
        l3 \in {JNull, JNum(0), JStr("x")} }

\* The flatten step of a day (lines 97-107) on a payload of one such record,
\* or of an element that is no object.
InitFlatten ==
    /\ master = NoBlob
    /\ raw = {1}
    /\ start_date = [w \in Workers |-> IF w = 1 THEN 1 ELSE BadStartDate]
    /\ pc = [w \in Workers |-> IF w = 1 THEN "flatten" ELSE "idle"]
    /\ cur = [w \in Workers |-> IF w = 1 THEN 1 ELSE 0]
    /\ resp \in {[w \in Workers |-> IF w = 1 THEN JsonPayload("hourly", <<rec>>)
                                             ELSE BlankPayload] :
                    rec \in FieldRecords \cup {NotAnObject}}
    /\ df = [w \in Workers |-> <<>>]
    /\ master_df = [w \in Workers |-> <<>>]
    /\ day_results = [w \in Workers |-> [d \in 1..MaxDays |-> NoResult]]
    /\ total_rows = [w \in Workers |-> 0]
    /\ total_days = [w \in Workers |-> 0]
    /\ visited = [w \in Workers |-> IF w = 1 THEN <<1>> ELSE <<>>]
    /\ accepted = [w \in Workers |-> {}]
    /\ doc = NoDocument
    /\ wide = NotRun
NextFlatten == Flatten(1)
SpecFlatten == InitFlatten /\ [][NextFlatten]_vars

(* --------------------------- Pipeline.run_once ------------------------- *)
\* Lines 24-45: fetch the forecast, store it, flatten it and store the
\* per-run CSV; an exception of any of them leaves run_once.
RunOnce ==
    /\ wide = NotRun
    /\ \/ wide' = flatten_dwml(doc)
       \/ wide' = DwmlRaised("fetch_or_upload")
    /\ UNCHANGED <<master, raw, pc, start_date, cur, resp, df, master_df, day_results,
                   total_rows, total_days, visited, accepted, doc>>

\* The forecast run alone, on any document of the model.
InitDwml == InitWorkers({}) /\ doc \in Documents
NextDwml == RunOnce
SpecDwml == InitDwml /\ [][NextDwml]_vars

(* ======================= the claims, C1 .. C8 ========================== *)
\* The master table as it is read back from the blob.
PersistedTable == ReadCsv(master.rows)
Count(rows, r) == Cardinality({i \in 1..Len(rows) : rows[i] = r})
RowsOf(rows) == {rows[i] : i \in 1..Len(rows)}
\* The step of worker w that runs lines 136-174, and the outcome it records.
MergeStep(w) == pc[w] = "merge" /\ pc'[w] # "merge"
OutcomeOfStep(w) == day_results'[w][cur[w]]

\* C1: after a merge step completes, no two rows of the persisted master
\* table share the same (begin_date, location_id) pair.
C1_UniqueKeys ==
    \A i, j \in 1..Len(PersistedTable) :
        i # j => KeyOf(PersistedTable[i]) # KeyOf(PersistedTable[j])

\* C2: merging a batch B into the table T and then merging the same B into
\* the table that was persisted accepts no row the second time.  Stated where
\* a worker has T (read) and B (flattened) in hand.
FirstMergeTable(w) ==
    IF NewRows(master_df[w], df[w]) = <<>> THEN master.rows
    ELSE Updated(master_df[w], NewRows(master_df[w], df[w]))
C2_MergeIdempotent ==
    \A w \in Workers :
        pc[w] = "merge" => NewRows(ReadCsv(FirstMergeTable(w)), df[w]) = <<>>

\* C3: an incoming record is accepted iff its (begin_date, location_id) key
\* is absent from the key set of the persisted table (the table as the merge
\* reads it), whatever its load: the day reports as many rows as there are
\* incoming records with an absent key, and the table written back holds
\* the rows that were read, as they were, plus exactly those records; when
\* there is none the blob is left as it is.
AbsentKey(T, B) ==
    {i \in 1..Len(B) :
        ~\E j \in 1..Len(T) : /\ T[j].begin_date = B[i].begin_date
                              /\ T[j].location_id = B[i].location_id}
C3_Step(w) ==
    LET T == PersistedTable
        B == Normalize(df[w])
        acc == AbsentKey(T, B)
        T2 == master'.rows
    IN  MergeStep(w) /\ OutcomeOfStep(w).kind # "master_update_failed" =>
          /\ OutcomeOfStep(w).rows_this_run = Cardinality(acc)
          /\ acc = {} => master' = master
          /\ acc # {} =>
                \A r \in RowsOf(T) \cup RowsOf(B) \cup RowsOf(T2) :
                    Count(T2, r) = Count(T, r) + Cardinality({i \in acc : B[i] = r})
C4_Step ==
    LET T == PersistedTable
        T2 == ReadCsv(master'.rows)
    IN  /\ \A r \in RowsOf(T) : Count(T2, r) >= Count(T, r)
        /\ Len(T2) >= Len(T)
        /\ master.exists => master'.exists
C5_Step(w) ==
    LET B == Normalize(df[w])
    IN  MergeStep(w) /\ (\A i \in 1..Len(B) : KeyOf(B[i]) \in KeySet(PersistedTable)) =>
          /\ master' = master
          /\ OutcomeOfStep(w) = Skipped
C6_EveryDayOnceInOrder ==
    \A w \in Workers :
        (start_date[w] # BadStartDate /\ pc[w] \notin {"start", "idle"}) =>
            /\ \A i \in 1..Len(visited[w]) : visited[w][i] = start_date[w] + i - 1
            /\ Len(visited[w]) =
                  IF pc[w] \in {"fetch", "done"} THEN cur[w] - start_date[w]
                  ELSE cur[w] - start_date[w] + 1
            /\ \A d \in 1..MaxDays :
                  (day_results[w][d].kind # "none") <=> (start_date[w] <= d /\ d < cur[w])
            /\ pc[w] = "done" => cur[w] > EndDay

\* A run ended whose first day failed and whose last day appended rows.
C6_Witness ==
    /\ pc[1] = "done"
    /\ start_date[1] = 1
    /\ day_results[1][1].kind \in ErrorKinds
    /\ day_results[1][MaxDays].kind = "appended"

\* C7 as stated: the value returned always has a per-day map, with an entry
\* (a count or an error) for every day of the range.
C7_AlwaysPerDayMap ==
    \A w \in Workers :
        pc[w] = "done" =>
            /\ "per_day" \in Summary(w).keys
            /\ \A d \in 1..MaxDays :
                  (start_date[w] # BadStartDate /\ start_date[w] <= d) =>
                      d \in DOMAIN Summary(w).per_day

\* C7 as amended: when start_date parses, the value returned has a per-day
\* map with an entry for every day from start_date to the end date, each a
\* count of rows or an error.
C7_PerDayMapWhenStartDateParses ==
    \A w \in Workers :
        (pc[w] = "done" /\ start_date[w] # BadStartDate) =>
            /\ "per_day" \in Summary(w).keys
            /\ DOMAIN Summary(w).per_day = start_date[w]..EndDay
            /\ \A d \in start_date[w]..EndDay :
                  Summary(w).per_day[d].kind \in ErrorKinds \cup {"appended", "no_new_rows"}

\* A run over both days ended with one day failed and one day counted.
C7_Witness ==
    /\ pc[1] = "done"
    /\ start_date[1] = 1
    /\ \E d \in 1..MaxDays : Summary(1).per_day[d].kind \in ErrorKinds
    /\ \E d \in 1..MaxDays : Summary(1).per_day[d].kind = "appended"

\* C8: flatten_energy never raises, whatever the payload.
C8_FlattenNeverRaises ==
    \A w \in Workers : pc[w] = "flatten" => ~flatten_energy(resp[w], Location).raised

(* ============================ the claim C9 ============================= *)
\* C9: two executions of the merge on the same master blob can interleave
\* so that a row one of them accepted is lost.  What the code guarantees is
\* only this: the table an execution writes back holds the rows of the
\* snapshot it read and the rows it accepted, and nothing else, so a row
\* that another execution wrote after the snapshot was read is not in it.
C9_Step(w) ==
    (MergeStep(w) /\ OutcomeOfStep(w).kind = "appended") =>
        \A r \in RowsOf(master.rows) :
            r \notin RowsOf(master_df[w]) \cup RowsOf(Normalize(df[w])) =>
                r \notin RowsOf(master'.rows)
C9_WriteBackDropsInterveningRows == [][\A w \in Workers : C9_Step(w)]_vars

\* Both executions have ended, each reported rows as appended, and a row
\* that the first one accepted is in the persisted table under no
\* location_id at all.
C9_Witness ==
    /\ \A w \in Workers : pc[w] = "done" /\ day_results[w][EndDay].kind = "appended"
    /\ \E r \in accepted[1] :
          \A i \in 1..Len(master.rows) : master.rows[i].begin_date # r.begin_date

(* ============================ the claim C10 ============================ *)
\* The distinct times over the time axes of all the series of the document.
UnionOfAxes(d) ==
    UNION {{AllSeries(d)[i].index[j] : j \in 1..Len(AllSeries(d)[i].index)} :
             i \in 1..Len(AllSeries(d))}
AxisOf(series) == {series.index[j] : j \in 1..Len(series.index)}

ValueAt(series, t) ==
    series.data[CHOOSE j \in 1..Len(series.index) : series.index[j] = t]

\* C11: in the wide table, the column of every series holds the missing value
\* at every row whose time is not on the series' own axis, and the series'
\* coerced value at every row whose time is on it.
C11_ColumnOfEverySeries ==
    wide.status = "table" =>
        \A i \in 1..Len(AllSeries(doc)) : \A r \in 1..Len(wide.rows) :
            LET series == AllSeries(doc)[i]
                t == wide.rows[r].forecast_time_utc
                cell == wide.rows[r].cols[Renamed(series.name)]
            IN  IF t \in AxisOf(series) THEN cell = ValueAt(series, t) ELSE cell = NaN

(* ============================ the claim C12 ============================ *)
\* C12: _time_map does not abort on a time-layout that lacks its layout key
\* or holds a malformed or offset-less start-valid-time: the run never ends
\* with an exception of _time_map, the other layouts being indexed.
C12_TimeMapNeverAborts ==
    ~(wide.status = "raised" /\ wide.why = "_time_map")

(* ============================ the claim C13 ============================ *)
\* The times, in UTC, of the layout an element refers to.
TimesOfLayout(d, key) ==
    LET tl == d.layouts[CHOOSE i \in 1..Len(d.layouts) : d.layouts[i].key = key]
    IN  [j \in 1..Len(tl.times) |-> tl.times[j].local - tl.times[j].off]
\* The number of pairs of an element: the lesser of its values and its
\* layout's times, 0 when it refers to no layout of the document.
Pairs(d, e) ==
    IF \E i \in 1..Len(d.layouts) : d.layouts[i].key = e.tl /\ e.tl # ""
    THEN IF Len(e.values) <= Len(TimesOfLayout(d, e.tl))
         THEN Len(e.values) ELSE Len(TimesOfLayout(d, e.tl))
    ELSE 0

\* C13: an element with n values on a layout of m times gives a series of
\* exactly min(n, m) entries, the i-th value with the i-th time of the layout;
\* a difference of the lengths is no error, and the table shows these pairs.
C13_MinAlignedPairs ==
    (wide.status # "none" /\ ~_time_map_raises(doc)) =>
        /\ \A i \in 1..Len(doc.params) :
              LET e == doc.params[i]
                  k == Pairs(doc, e)
                  times == TimesOfLayout(doc, e.tl)
              IN  k > 0 =>
                    /\ \E x \in 1..Len(NumericSeries(doc)) :
                          LET series == NumericSeries(doc)[x]
                          IN  /\ series.name = SeriesName(e)
                              /\ Len(series.index) = k /\ Len(series.data) = k
                              /\ \A j \in 1..k :
                                    /\ series.index[j] = times[j]
                                    /\ series.data[j] = CoerceValue(e.values[j])
                    /\ ~(wide.status = "raised" /\ wide.why = "no_timestamps")
                    /\ (wide.status = "table" /\ doc \in PointDocuments) =>
                          \A r \in 1..Len(wide.rows) :
                              LET t == wide.rows[r].forecast_time_utc
                                  cell == wide.rows[r].cols[Renamed(SeriesName(e))]
                              IN  IF \E j \in 1..k : times[j] = t
                                  THEN \E j \in 1..k :
                                          times[j] = t /\ cell = CoerceValue(e.values[j])
                                  ELSE cell = NaN
\* A table from an element with more values than its layout has times, and
\* one from an element with fewer.
C13_Witness ==
    /\ wide.status = "table"
    /\ Len(doc.params[1].values) > Len(doc.layouts[1].times)
    /\ Len(doc.layouts[1].times) = MaxTimes
    /\ doc.params[1].tl = doc.layouts[1].key
C13_WitnessFewerValues ==
    /\ wide.status = "table"
    /\ Len(doc.params[1].values) > 0
    /\ Len(doc.params[1].values) < Len(doc.layouts[1].times)
    /\ doc.params[1].tl = doc.layouts[1].key

(* ============================ the claim C14 ============================ *)
\* C14: after any sequence of per-day merges from an empty master table, the
\* rows of the persisted master table are in ascending order of begin_date
\* (rows without a begin date, if any, after the dated ones).
C14_MasterAscending ==
    \A i, j \in 1..Len(master.rows) :
        i < j => ~SortsBefore(master.rows[j].begin_date, master.rows[i].begin_date)
\* Two days appended a row each, and the row of the later day has the earlier
\* begin date: its location_id still reads as the feed sent it ("04004"),
\* which a later write-back of the table would have rendered as 4004.
C14_Witness ==
    /\ \A d \in 1..2 : day_results[1][d].kind = "appended"
                       /\ day_results[1][d].rows_this_run = 1
    /\ Len(master.rows) = 2
    /\ master.rows[1].location_id = "04004"
    /\ master.rows[1].begin_date < master.rows[2].begin_date

(* ============================ the claim C15 ============================ *)
\* The first of three fields that is present in the record (JNull when none).
FirstPresent(a, b, c) == IF a # JNull THEN a ELSE IF b # JNull THEN b ELSE c

\* C15: the row of a record takes its load from Load, else Value, else load,
\* and its begin date from BeginDate, else Begin, else beginDate: the first
\* of them present in the record is the one used, a value of 0 included.
C15_FirstPresentFieldWins ==
    (pc[1] = "read_master" /\ Len(df[1]) = 1) =>
        LET rec == resp[1].items[1]
        IN  /\ df[1][1].load = ToNumericCoerce(FirstPresent(rec.Load, rec.Value, rec.load))
            /\ df[1][1].begin_date =
                   BeginDateOf(FirstPresent(rec.BeginDate, rec.Begin, rec.beginDate))

(* ============================ the claim C16 ============================ *)
\* The day worker w is processing ends with this step in an error.
EndsInError(w) ==
    /\ pc[w] \in {"fetch", "upload_raw", "flatten", "read_master", "merge"}
    /\ day_results'[w][cur[w]].kind \in ErrorKinds
\* The day worker w is processing ends with this step reporting appended rows.
EndsAppending(w) ==
    /\ pc[w] = "merge"
    /\ day_results'[w][cur[w]].kind = "appended"
    /\ day_results'[w][cur[w]].rows_this_run > 0

\* C16: no step of a day that ends in an error (fetch_failed,
\* upload_raw_failed, flatten_failed, master_update_failed) changes the rows of
\* the persisted master table, and the rows change only in the step that ends
\* a day with rows_this_run > 0; so an error day leaves them as they were.
C16_Step ==
    /\ EndsInError(1) => master'.rows = master.rows
    /\ master'.rows # master.rows => EndsAppending(1)
C16_ErrorDayKeepsRows == [][C16_Step]_vars
\* The second day failed at the master update after the first day had
\* appended its rows, and they are still there.
C16_Witness ==
    /\ day_results[1][1].kind = "appended"
    /\ day_results[1][2].kind = "master_update_failed"
    /\ master.rows # <<>>
    /\ Len(master.rows) = day_results[1][1].rows_this_run

(* ============================ the claim C17 ============================ *)
\* The sum of rows_this_run over the entries of a per-day map.
RECURSIVE SumRowsThisRun(_, _)
SumRowsThisRun(per_day, days) ==
    IF days = {} THEN 0
    ELSE LET d == CHOOSE x \in days : TRUE
         IN  per_day[d].rows_this_run + SumRowsThisRun(per_day, days \ {d})

\* C17: in the summary a run returns, days_requested is the number of entries
\* of per_day and total_rows is the sum of their rows_this_run.
C17_SummaryTotals ==
    \A w \in Workers :
        (pc[w] = "done" /\ start_date[w] # BadStartDate) =>
            /\ Summary(w).days_requested = Cardinality(DOMAIN Summary(w).per_day)
            /\ Summary(w).total_rows =
                   SumRowsThisRun(Summary(w).per_day, DOMAIN Summary(w).per_day)

====
